---- MODULE Spec2Model ----
(***************************************************************************)
(* A model of the AgentIDL SDK: the interface-model builder               *)
(* (loadAgentInterface), the intent-addressed runtime (AgentRuntime), the *)
(* runtime transport and the generated client / handler registrar.        *)
(* Two implementations of the SDK exist side by side, a TypeScript one    *)
(* and a JavaScript one; `impl` says which one a run uses.                *)
(***************************************************************************)
EXTENDS Integers, Sequences, FiniteSets, TLC

(***************************************************************************)
(* Bounds of the model.                                                    *)
(***************************************************************************)
MaxArgs == 2
MaxOps == 2
MaxCalls == 3

(***************************************************************************)
(* JavaScript values.  null and undefined are kept apart from every string *)
(* (the empty string included), since the code tests them with `!v` and    *)
(* `v || d`.                                                               *)
(***************************************************************************)
Null == "<null>"
Undefined == "<undefined>"
Falsy(v) == v \in {Null, Undefined, ""}
OrElse(v, d) == IF Falsy(v) THEN d ELSE v

RECURSIVE Join(_, _)
Join(parts, sep) ==
  IF parts = <<>> THEN ""
  ELSE IF Len(parts) = 1 THEN Head(parts)
  ELSE Head(parts) \o sep \o Join(Tail(parts), sep)

(***************************************************************************)
(* Extended attributes.  A raw attribute value is a sequence of tokens:    *)
(* the quote character is a token of its own, every other token stands for *)
(* one or more characters that are not quotes.  rhs.kind tells the shape   *)
(* the parser gave the right-hand side: "none" (no rhs), "string" (the rhs *)
(* is itself a string), "object" (an object whose value is a string) or    *)
(* "list" (an object whose value is not a string).                         *)
(***************************************************************************)
Quote == "\""

StartsWithQuote(v) == Len(v) > 0 /\ v[1] = Quote
EndsWithQuote(v) == Len(v) > 0 /\ v[Len(v)] = Quote

RECURSIVE FindAttr(_, _)
FindAttr(extAttrs, name) ==
  IF extAttrs = <<>> THEN <<>>
  ELSE IF Head(extAttrs).name = name THEN <<Head(extAttrs)>>
  ELSE FindAttr(Tail(extAttrs), name)

getExtAttrValue(extAttrs, name) ==
  LET found == FindAttr(extAttrs, name) IN
  IF found = <<>> THEN Null
  ELSE LET rhs == found[1].rhs IN
       IF rhs.kind \notin {"string", "object"} THEN Null
       ELSE IF StartsWithQuote(rhs.value) /\ EndsWithQuote(rhs.value)
            THEN Join(SubSeq(rhs.value, 2, Len(rhs.value) - 1), "")
            ELSE Join(rhs.value, "")

(***************************************************************************)
(* Type descriptors of the parser: a bare name, a union of descriptors, a  *)
(* generic wrapper, a single-inner wrapper, or nothing at all.             *)
(***************************************************************************)
TName(n) == [kind |-> "name", name |-> n, inner |-> <<>>]
TGeneric(g, ds) == [kind |-> "generic", name |-> g, inner |-> ds]
TUnion(ds) == [kind |-> "union", name |-> "", inner |-> ds]
TWrap(d) == [kind |-> "wrap", name |-> "", inner |-> <<d>>]
TNone == [kind |-> "none", name |-> "", inner |-> <<>>]

RECURSIVE serializeIdlType(_)
serializeIdlType(t) ==
  CASE t.kind = "none" -> "any"
    [] t.kind = "name" -> t.name
    [] t.kind = "union" ->
         Join([i \in 1..Len(t.inner) |-> serializeIdlType(t.inner[i])], " or ")
    [] t.kind = "generic" ->
         t.name \o "<"
           \o Join([i \in 1..Len(t.inner) |-> serializeIdlType(t.inner[i])], " or ")
           \o ">"
    [] t.kind = "wrap" -> serializeIdlType(t.inner[1])

(***************************************************************************)
(* The interface model.  `methods` is a plain object keyed by operation    *)
(* name: a later member with the same name overwrites the earlier one.     *)
(* The TypeScript builder skips members without a name and defaults the    *)
(* intent to the empty string; the JavaScript builder does neither.        *)
(***************************************************************************)
Impls == {"ts", "js"}

methodDef(impl, member) ==
  [ name |-> member.name,
    intent |-> IF impl = "ts"
               THEN OrElse(getExtAttrValue(member.extAttrs, "Intent"), "")
               ELSE getExtAttrValue(member.extAttrs, "Intent"),
    proof |-> getExtAttrValue(member.extAttrs, "Proof"),
    returnType |-> serializeIdlType(member.idlType),
    params |-> [i \in 1..Len(member.arguments) |->
                  [name |-> member.arguments[i].name,
                   type |-> serializeIdlType(member.arguments[i].idlType)]] ]

Recorded(impl, member) ==
  /\ member.type = "operation"
  /\ impl = "ts" => ~Falsy(member.name)

\* a methods map that keeps the first declaration of a name
RECURSIVE buildMethods_keepFirst(_, _, _)
buildMethods_keepFirst(impl, members, acc) ==
  IF members = <<>> THEN acc
  ELSE LET m == Head(members) IN
       buildMethods_keepFirst(impl, Tail(members),
         IF Recorded(impl, m) /\ m.name \notin DOMAIN acc
         THEN [n \in DOMAIN acc \cup {m.name} |->
                 IF n = m.name THEN methodDef(impl, m) ELSE acc[n]]
         ELSE acc)

RECURSIVE buildMethods(_, _, _)
buildMethods(impl, members, acc) ==
  IF members = <<>> THEN acc
  ELSE LET m == Head(members) IN
       buildMethods(impl, Tail(members),
         IF Recorded(impl, m)
         THEN [n \in DOMAIN acc \cup {m.name} |->
                 IF n = m.name THEN methodDef(impl, m) ELSE acc[n]]
         ELSE acc)

NoMethods == [n \in {} |-> Null]

loadAgentInterface(impl, iface) ==
  [ name |-> iface.name,
    context |-> getExtAttrValue(iface.extAttrs, "Context"),
    semantic |-> getExtAttrValue(iface.extAttrs, "Semantic"),
    methods |-> buildMethods(impl, iface.members, NoMethods) ]

(***************************************************************************)
(* The interface definitions the runs are built from.                      *)
(***************************************************************************)
Attr(n, kind, value) == [name |-> n, rhs |-> [kind |-> kind, value |-> value]]
Arg(n, t) == [name |-> n, idlType |-> t]
Op(n, attrs, args, ret) ==
  [type |-> "operation", name |-> n, extAttrs |-> attrs, arguments |-> args,
   idlType |-> ret]

mProposeContract ==
  Op("proposeContract",
     <<Attr("Intent", "object", <<Quote, "agent:ProposeContract", Quote>>)>>,
     <<Arg("data", TWrap(TName("ContractData")))>>,
     TGeneric("Promise", <<TWrap(TName("Outcome"))>>))
mExecutePayment ==
  Op("executePayment",
     <<Attr("Intent", "object", <<"agent:ExecutePayment">>),
       Attr("Proof", "object", <<"ledger:tx">>)>>,
     <<Arg("payment", TWrap(TName("PaymentRequest")))>>,
     TGeneric("Promise", <<TWrap(TName("Receipt"))>>))
mPing ==
  Op("ping", <<>>, <<>>, TWrap(TName("undefined")))
mTransfer ==
  Op("transfer",
     <<Attr("Proof", "string", <<Quote, Quote>>),
       Attr("Intent", "string", <<"agent:ExecutePayment">>)>>,
     <<Arg("data", TWrap(TName("long"))), Arg("data", TWrap(TName("long")))>>,
     TWrap(TName("boolean")))

Iface(members) ==
  [type |-> "interface", name |-> "AgentTask",
   extAttrs |-> <<Attr("Context", "object",
                       <<Quote, "https://s-agent-comm.github.io/ontology/context/agent.jsonld", Quote>>)>>,
   members |-> members]

RuntimeIface == Iface(<<mProposeContract, mExecutePayment, mPing, mTransfer>>)


(***************************************************************************)
(* The code generator.  methodMeta is built from the operation members in  *)
(* declaration order.  What generate() emits is text; the model keeps the  *)
(* emitted module as data: the entries of the `intents` object literal,    *)
(* the entries of the object literal createClient returns, and the         *)
(* statements of registerHandlers, each holding the expressions the text   *)
(* holds.  An expression is a reference intents.<key>.<field> or a         *)
(* literal.  The type annotations of the typed flavour are erased at run   *)
(* time and are left out.                                                  *)
(***************************************************************************)
RECURSIVE SelectOps(_)
SelectOps(members) ==
  IF members = <<>> THEN <<>>
  ELSE IF Head(members).type = "operation"
       THEN <<Head(members)>> \o SelectOps(Tail(members))
       ELSE SelectOps(Tail(members))

methodMeta(iface) ==
  LET methods == SelectOps(iface.members) IN
  [i \in 1..Len(methods) |->
     [ name |-> methods[i].name,
       intent |-> OrElse(getExtAttrValue(methods[i].extAttrs, "Intent"), ""),
       proof |-> getExtAttrValue(methods[i].extAttrs, "Proof"),
       params |-> [j \in 1..Len(methods[i].arguments) |->
                     methods[i].arguments[j].name] ]]

Ref(key) == [kind |-> "ref", key |-> key, value |-> ""]
Lit(value) == [kind |-> "lit", key |-> "", value |-> value]

emitIntents(flavour, meta) ==
  [i \in 1..Len(meta) |->
     [ key |-> meta[i].name,
       intent |-> meta[i].intent,
       proof |-> IF Falsy(meta[i].proof) THEN Null ELSE meta[i].proof ]]

emitClient(flavour, meta) ==
  [i \in 1..Len(meta) |->
     [ key |-> meta[i].name,
       params |-> meta[i].params,
       intent |-> Ref(meta[i].name),
       proof |-> Ref(meta[i].name),
       payloadKeys |-> meta[i].params ]]

\* a registrar that writes the operation's intent into the statement
emitRegistrar_inlineIntent(flavour, meta) ==
  [i \in 1..Len(meta) |->
     [ intent |-> Lit(meta[i].intent),
       handlerKey |-> meta[i].name,
       params |-> meta[i].params ]]

emitRegistrar(flavour, meta) ==
  [i \in 1..Len(meta) |->
     [ intent |-> Ref(meta[i].name),
       handlerKey |-> meta[i].name,
       params |-> meta[i].params ]]

EmptyModule == [intents |-> <<>>, client |-> <<>>, registrar |-> <<>>]

emitModule(flavour, meta) ==
  [ intents |-> emitIntents(flavour, meta),
    client |-> emitClient(flavour, meta),
    registrar |-> emitRegistrar(flavour, meta) ]

generate(iface) ==
  LET meta == methodMeta(iface) IN
  [done |-> TRUE, ts |-> emitModule("ts", meta), js |-> emitModule("js", meta)]

\* An object literal evaluated: of two entries with one key the later stays.
ObjectLiteral(entries) ==
  [k \in {entries[i].key : i \in 1..Len(entries)} |->
     entries[CHOOSE i \in 1..Len(entries) :
               /\ entries[i].key = k
               /\ \A j \in (i + 1)..Len(entries) : entries[j].key # k]]

EvalIntent(module, expr) ==
  IF expr.kind = "ref" THEN ObjectLiteral(module.intents)[expr.key].intent
  ELSE expr.value
EvalProof(module, expr) ==
  IF expr.kind = "ref" THEN ObjectLiteral(module.intents)[expr.key].proof
  ELSE expr.value

(***************************************************************************)
(* The runtime.  Agents are AgentRuntime objects; each has an id, the      *)
(* interface model it was constructed with and its own intent table.       *)
(***************************************************************************)
Agents == {"buyer", "seller"}
Callers == {"buyer"}
AgentId(a) == IF a = "buyer" THEN "agent:Buyer" ELSE "agent:Seller"

Intents == {"agent:ProposeContract", "agent:ExecutePayment", ""}
RegIntents == {"agent:ProposeContract", "agent:ExecutePayment"}
Handlers == {"h1", "h2"}
Values == {"v1", "v2"}
Timestamps == {"t1"}
Proofs == {Undefined, "", "ledger:tx"}
SentProofs == {Null, "ledger:tx"}
ObjectPrototypeKeys == {"toString", "constructor"}

\* Argument lists of up to MaxArgs values; neighbours differ, so that a
\* position can be told from the next.
ArgLists ==
  { args \in UNION {[1..n -> Values] : n \in 0..MaxArgs} :
      \A i \in 1..(Len(args) - 1) : args[i] # args[i + 1] }
NoPayload == [k \in {} |-> Undefined]
Payloads == {NoPayload, [k \in {"data"} |-> "v1"]}

VARIABLES impl, interfaceDef, intentHandlers, registered, last,
          idl, generated, calls, blockedOn

runtimeVars == <<impl, interfaceDef, intentHandlers, registered, last>>
genVars == <<idl, generated>>
asyncVars == <<calls, blockedOn>>
vars == <<runtimeVars, genVars, asyncVars>>

EmptyTable == [k \in {} |-> Null]

Returned(v) == [kind |-> "value", value |-> v]
Thrown(e) == [kind |-> "error", error |-> e]

\* object.key on a plain object
Field(object, key) == IF key \in DOMAIN object THEN object[key] ELSE Undefined

\* What a handler does with a message is the handler's business.  h1 returns
\* a value made from the message; h2 reads a property of message.payload.data
\* first (as the scenario handlers do with payload.ctx), which throws when the
\* payload has no data.
\* A handler the generated registrar bound is a wrapper: entry i of the
\* registrar of one flavour.  It reads the operation's parameters off the
\* payload by name, in declared order, and calls the user's handler of that
\* operation with them and the message.
Flavours == {"ts", "js"}
WrapperId(flavour, i) == flavour \o "#" \o ToString(i)
WrapperIds == {WrapperId(f, i) : f \in Flavours, i \in 1..MaxOps}
WrapperEntry(h) ==
  LET fi == CHOOSE fi \in Flavours \X (1..MaxOps) : WrapperId(fi[1], fi[2]) = h
  IN generated[fi[1]].registrar[fi[2]]

HandlerCall(h, message) ==
  IF h \in WrapperIds
  THEN LET e == WrapperEntry(h) IN
       Returned([by |-> "handlers." \o e.handlerKey,
                 args |-> [j \in 1..Len(e.params) |->
                             Field(message.payload, e.params[j])],
                 saw |-> message])
  ELSE IF h = "h2" /\ Field(message.payload, "data") = Undefined
  THEN Thrown("HandlerError")
  ELSE Returned([by |-> h, saw |-> message])

\* What an operation did: the messages it built, the receive calls and the
\* handler calls it made, the intent tables it left behind and how it settled.
NoTrace == [built |-> <<>>, received |-> <<>>, invoked |-> <<>>]
Untouched == NoTrace @@ [tables |-> intentHandlers]

\* Map.prototype.set: insert or overwrite.
MapSet(table, key, value) ==
  [k \in DOMAIN table \cup {key} |-> IF k = key THEN value ELSE table[k]]

\* registerIntent that keeps the handler an intent already has.
registerIntent_keepFirst(tables, self, intent, handler) ==
  NoTrace @@
  [ tables |-> IF intent \in DOMAIN tables[self]
               THEN tables
               ELSE [tables EXCEPT ![self] = MapSet(@, intent, handler)],
    outcome |-> Returned(Undefined) ]

\* `tables` are the intent tables the call finds.
registerIntent(tables, self, intent, handler) ==
  NoTrace @@
  [ tables |-> [tables EXCEPT ![self] = MapSet(@, intent, handler)],
    outcome |-> Returned(Undefined) ]

\* receive that refuses a message addressed to another agent.
receive_checksTo(self, message) ==
  LET table == intentHandlers[self] IN
  IF message.to # AgentId(self) \/ message.intent \notin DOMAIN table
  THEN [ built |-> <<>>,
         received |-> <<[at |-> self, message |-> message]>>,
         invoked |-> <<>>,
         tables |-> intentHandlers,
         outcome |-> Thrown("UnhandledIntent") ]
  ELSE [ built |-> <<>>,
         tables |-> intentHandlers,
         received |-> <<[at |-> self, message |-> message]>>,
         invoked |-> <<[at |-> self, handler |-> table[message.intent],
                        message |-> message]>>,
         outcome |-> HandlerCall(table[message.intent], message) ]

\* receive that answers undefined when no handler is registered.
receive_defaultOnMissing(self, message) ==
  LET table == intentHandlers[self] IN
  [ built |-> <<>>,
    received |-> <<[at |-> self, message |-> message]>>,
    invoked |-> IF message.intent \in DOMAIN table
                THEN <<[at |-> self, handler |-> table[message.intent],
                        message |-> message]>>
                ELSE <<>>,
    tables |-> intentHandlers,
    outcome |-> IF message.intent \in DOMAIN table
                THEN HandlerCall(table[message.intent], message)
                ELSE Returned(Undefined) ]

\* receive that forgets a handler once it has dispatched to it.
receive_oneShot(self, message) ==
  LET table == intentHandlers[self] IN
  IF message.intent \notin DOMAIN table
  THEN [ built |-> <<>>,
         received |-> <<[at |-> self, message |-> message]>>,
         invoked |-> <<>>,
         tables |-> intentHandlers,
         outcome |-> Thrown("UnhandledIntent") ]
  ELSE [ built |-> <<>>,
         received |-> <<[at |-> self, message |-> message]>>,
         invoked |-> <<[at |-> self, handler |-> table[message.intent],
                        message |-> message]>>,
         tables |-> [intentHandlers EXCEPT ![self] =
                       [k \in DOMAIN table \ {message.intent} |-> table[k]]],
         outcome |-> HandlerCall(table[message.intent], message) ]

receive(self, message) ==
  LET table == intentHandlers[self] IN
  IF message.intent \notin DOMAIN table
  THEN [ built |-> <<>>,
         received |-> <<[at |-> self, message |-> message]>>,
         invoked |-> <<>>,
         tables |-> intentHandlers,
         outcome |-> Thrown("UnhandledIntent") ]
  ELSE [ built |-> <<>>,
         tables |-> intentHandlers,
         received |-> <<[at |-> self, message |-> message]>>,
         invoked |-> <<[at |-> self, handler |-> table[message.intent],
                        message |-> message]>>,
         outcome |-> HandlerCall(table[message.intent], message) ]

\* invokeIntent that hands the message to its own receive.
invokeIntent_toSelf(self, targetAgent, intent, payload, proof, now) ==
  LET message == [ from |-> AgentId(self),
                   to |-> AgentId(targetAgent),
                   intent |-> intent,
                   proof |-> OrElse(proof, Null),
                   payload |-> payload,
                   timestamp |-> now ]
      r == receive(self, message)
  IN [r EXCEPT !.built = <<message>>]

invokeIntent(self, targetAgent, intent, payload, proof, now) ==
  LET message == [ from |-> AgentId(self),
                   to |-> AgentId(targetAgent),
                   intent |-> intent,
                   proof |-> OrElse(proof, Null),
                   payload |-> payload,
                   timestamp |-> now ]
      r == receive(targetAgent, message)
  IN [r EXCEPT !.built = <<message>>]

\* payload[param.name] = args[index], in declaration order.
LastIndex(params, n) ==
  CHOOSE i \in 1..Len(params) :
    /\ params[i].name = n
    /\ \A j \in (i + 1)..Len(params) : params[j].name # n
ArgAt(args, i) == IF i <= Len(args) THEN args[i] ELSE Undefined
\* payload built from the arguments one position late.
buildPayload_shifted(params, args) ==
  [n \in {params[i].name : i \in 1..Len(params)} |->
     ArgAt(args, LastIndex(params, n) + 1)]

buildPayload(params, args) ==
  [n \in {params[i].name : i \in 1..Len(params)} |->
     ArgAt(args, LastIndex(params, n))]

\* this.interfaceDef.methods[methodName] on a plain object: an own key, a
\* key inherited from Object.prototype, or undefined.
lookupMethod(methods, methodName) ==
  IF methodName \in DOMAIN methods THEN "own"
  ELSE IF methodName \in ObjectPrototypeKeys THEN "inherited"
  ELSE "undefined"

\* callMethod that routes by the operation's name instead of its intent.
callMethod_byName(self, targetAgent, methodName, args, now) ==
  LET methods == interfaceDef[self].methods
      found == lookupMethod(methods, methodName)
  IN IF found = "undefined"
     THEN Untouched @@ [outcome |-> Thrown("UnknownMethod")]
     ELSE IF found = "inherited"
     THEN Untouched @@ [outcome |-> Thrown("TypeError")]
     ELSE LET method == methods[methodName] IN
          invokeIntent(self, targetAgent, method.name,
                       buildPayload(method.params, args),
                       IF impl = "ts" THEN OrElse(method.proof, Null) ELSE method.proof,
                       now)

callMethod(self, targetAgent, methodName, args, now) ==
  LET methods == interfaceDef[self].methods
      found == lookupMethod(methods, methodName)
  IN IF found = "undefined"
     THEN Untouched @@ [outcome |-> Thrown("UnknownMethod")]
     ELSE IF found = "inherited"
     THEN Untouched @@ [outcome |-> Thrown("TypeError")]
     ELSE LET method == methods[methodName] IN
          invokeIntent(self, targetAgent, method.intent,
                       buildPayload(method.params, args),
                       IF impl = "ts" THEN OrElse(method.proof, Null) ELSE method.proof,
                       now)

createRuntimeTransport(caller, target) == [caller |-> caller, target |-> target]

\* send that leaves the proof behind.
send_dropsProof(transport, message, now) ==
  invokeIntent(transport.caller, transport.target,
               message.intent, message.payload, Undefined, now)

send(transport, message, now) ==
  invokeIntent(transport.caller, transport.target,
               message.intent, message.payload, message.proof, now)


(***************************************************************************)
(* The generated module at run time.                                       *)
(***************************************************************************)
\* createClient(transport)[opName](...args): the stub binds its parameters
\* to the arguments by position and sends one message.
clientCall(module, transport, opName, args, now) ==
  LET stub == ObjectLiteral(module.client)[opName]
      message == [ intent |-> EvalIntent(module, stub.intent),
                   proof |-> EvalProof(module, stub.proof),
                   payload |-> buildPayload(
                     [j \in 1..Len(stub.payloadKeys) |-> [name |-> stub.payloadKeys[j]]],
                     args) ]
  IN send(transport, message, now)

\* registerHandlers(runtime, handlers): one registerIntent per statement,
\* in order.
RECURSIVE registerFrom(_, _, _, _, _)
registerFrom(flavour, module, tables, runtime, i) ==
  IF i > Len(module.registrar) THEN tables
  ELSE registerFrom(flavour, module,
         registerIntent(tables, runtime,
                        EvalIntent(module, module.registrar[i].intent),
                        WrapperId(flavour, i)).tables,
         runtime, i + 1)

registerHandlers(flavour, module, runtime) ==
  NoTrace @@
  [ tables |-> registerFrom(flavour, module, intentHandlers, runtime, 1),
    outcome |-> Returned(Undefined) ]

(***************************************************************************)
(* The state machine: construction, then any sequence of operations.       *)
(* `last` records the operation that ran last, what it was given, the      *)
(* messages it built, the receive calls and handler calls it made, and how *)
(* it settled.  `registered` remembers, per agent and intent, the handler  *)
(* most recently given to registerIntent.                                  *)
(***************************************************************************)
Ran(op, self, input, result) ==
  [ op |-> op, self |-> self, input |-> input,
    built |-> result.built, received |-> result.received,
    invoked |-> result.invoked, outcome |-> result.outcome ]

\* An operation runs to completion: its effect on the intent tables and
\* what it did become the new state.
Step(op, self, input, result) ==
  /\ intentHandlers' = result.tables
  /\ last' = Ran(op, self, input, result)
  /\ UNCHANGED <<impl, interfaceDef, genVars, asyncVars>>

NotGenerated == [done |-> FALSE, ts |-> EmptyModule, js |-> EmptyModule]

Init ==
  /\ impl \in Impls
  /\ interfaceDef = [a \in Agents |-> loadAgentInterface(impl, RuntimeIface)]
  /\ intentHandlers = [a \in Agents |-> EmptyTable]
  /\ registered = [a \in Agents |-> EmptyTable]
  /\ last = Ran("new", "buyer", <<>>, NoTrace @@ [outcome |-> Returned(Undefined)])
  /\ idl = RuntimeIface
  /\ generated = NotGenerated
  /\ calls = <<>>
  /\ blockedOn = 0

RegisterIntent ==
  \E a \in Agents, intent \in RegIntents, h \in Handlers :
    /\ Step("registerIntent", a,
            [intent |-> intent, handler |-> h,
             replaced |-> Field(registered[a], intent)],
            registerIntent(intentHandlers, a, intent, h))
    /\ registered' = [registered EXCEPT ![a] = (intent :> h) @@ registered[a]]

MessagesIn ==
  [ from : {"agent:Buyer"}, to : {AgentId(a) : a \in Agents},
    intent : Intents, proof : {Null}, payload : {NoPayload},
    timestamp : Timestamps ]

Receive ==
  \E a \in Agents, message \in MessagesIn :
    /\ Step("receive", a, [message |-> message], receive(a, message))
    /\ UNCHANGED registered

InvokeIntent ==
  \E a \in Callers, t \in Agents, intent \in Intents, payload \in Payloads,
     proof \in Proofs, now \in Timestamps :
    /\ Step("invokeIntent", a,
            [target |-> t, intent |-> intent, payload |-> payload,
             proof |-> proof],
            invokeIntent(a, t, intent, payload, proof, now))
    /\ UNCHANGED registered

MethodNames ==
  {"proposeContract", "executePayment", "ping", "transfer", "cancel", "toString"}

CallMethod ==
  \E a \in Callers, t \in Agents, methodName \in MethodNames, args \in ArgLists,
     now \in Timestamps :
    /\ Step("callMethod", a,
            [target |-> t, methodName |-> methodName, args |-> args],
            callMethod(a, t, methodName, args, now))
    /\ UNCHANGED registered

TransportSend ==
  \E c \in Callers, t \in Agents, intent \in Intents, payload \in Payloads,
     proof \in SentProofs, now \in Timestamps :
    LET transport == createRuntimeTransport(c, t)
        message == [intent |-> intent, payload |-> payload, proof |-> proof]
    IN /\ Step("send", c, [transport |-> transport, message |-> message],
               send(transport, message, now))
       /\ UNCHANGED registered

Next ==
  \/ RegisterIntent
  \/ Receive
  \/ InvokeIntent
  \/ CallMethod
  \/ TransportSend

Spec == Init /\ [][Next]_vars


(***************************************************************************)
(* Properties of the runtime.                                              *)
(***************************************************************************)
CallOps == {"receive", "invokeIntent", "callMethod", "send"}

Declared == last.input.methodName \in DOMAIN interfaceDef[last.self].methods
Method == interfaceDef[last.self].methods[last.input.methodName]

\* C1: whenever receive is given a message whose intent has no entry in the
\* receiving agent's intent table, the call fails with UnhandledIntent, no
\* handler is invoked and no value is returned.  (The table is the one the
\* call saw: no call changes a table, see C9.)
C1_UnhandledIntent ==
  \A i \in 1..Len(last.received) :
    LET e == last.received[i] IN
    e.message.intent \notin DOMAIN intentHandlers[e.at] =>
      /\ last.outcome = Thrown("UnhandledIntent")
      /\ last.invoked = <<>>

C1_Witness ==
  /\ last.op = "invokeIntent"
  /\ last.outcome = Thrown("UnhandledIntent")
  /\ DOMAIN intentHandlers[last.input.target] # {}

\* C2: callMethod of a declared operation on a target that has a handler h
\* registered for the operation's intent invokes h exactly once, at the
\* target, and settles exactly as h did on the delivered message.
C2_CallMethodDispatch ==
  (/\ last.op = "callMethod"
   /\ Declared
   /\ Method.intent \in DOMAIN intentHandlers[last.input.target]) =>
     LET h == intentHandlers[last.input.target][Method.intent] IN
     /\ Len(last.invoked) = 1
     /\ last.invoked[1].handler = h
     /\ last.invoked[1].at = last.input.target
     /\ last.outcome = HandlerCall(h, last.invoked[1].message)

C2_Witness ==
  /\ last.op = "callMethod"
  /\ last.input.methodName = "proposeContract"
  /\ Len(last.invoked) = 1
  /\ last.outcome.kind = "value"
  /\ last.outcome.value.by = "h2"

\* C3 (as claimed): callMethod with a method name that is not a declared
\* operation fails with UnknownMethod and builds and delivers no message.
C3_UnknownMethod ==
  (last.op = "callMethod" /\ ~Declared) =>
     /\ last.outcome = Thrown("UnknownMethod")
     /\ last.built = <<>>
     /\ last.received = <<>>
     /\ last.invoked = <<>>

\* C4 (as claimed): the message callMethod delivers has the payload keys
\* p_1..p_n with payload[p_i] = a_i (absent for i > k) and carries the
\* operation's intent and proof as the interface model holds them.
C4_PayloadAsClaimed ==
  (last.op = "callMethod" /\ Declared) =>
     /\ Len(last.built) = 1
     /\ last.received = <<[at |-> last.input.target, message |-> last.built[1]]>>
     /\ LET m == last.built[1]
            params == Method.params
        IN /\ DOMAIN m.payload = {params[i].name : i \in 1..Len(params)}
           /\ \A i \in 1..Len(params) :
                m.payload[params[i].name] = ArgAt(last.input.args, i)
           /\ m.intent = Method.intent
           /\ m.proof = Method.proof

\* C4 (amended): the delivered payload has exactly the keys p_1..p_n; each
\* key holds the argument at the last position declared with that name
\* (a_i when the names are distinct), absent beyond the arguments given;
\* the message carries the operation's intent, and its proof when that is a
\* non-empty string, null otherwise.
C4_Payload ==
  (last.op = "callMethod" /\ Declared) =>
     /\ Len(last.built) = 1
     /\ last.received = <<[at |-> last.input.target, message |-> last.built[1]]>>
     /\ LET m == last.built[1]
            params == Method.params
        IN /\ DOMAIN m.payload = {params[i].name : i \in 1..Len(params)}
           /\ \A i \in 1..Len(params) :
                (\A j \in (i + 1)..Len(params) : params[j].name # params[i].name)
                  => m.payload[params[i].name]
                       = (IF i <= Len(last.input.args)
                          THEN last.input.args[i] ELSE Undefined)
           /\ m.intent = Method.intent
           /\ m.proof = (IF Method.proof \in {Null, ""} THEN Null ELSE Method.proof)

C4_Witness ==
  /\ last.op = "callMethod"
  /\ last.input.methodName = "transfer"
  /\ last.input.args = <<"v1", "v2">>
  /\ Len(last.invoked) = 1
  /\ last.invoked[1].message.payload["data"] = "v2"
  /\ last.invoked[1].message.proof = Null

\* C5: every message a handler gets through invokeIntent is stamped with
\* the invoking agent's id and the target's id, carries the intent and
\* payload given, and was received and dispatched by the target agent.
C5_InvokeIntentMessage ==
  last.op = "invokeIntent" =>
     /\ Len(last.built) = 1
     /\ last.received = <<[at |-> last.input.target, message |-> last.built[1]]>>
     /\ \A i \in 1..Len(last.invoked) :
          LET e == last.invoked[i] IN
          /\ e.at = last.input.target
          /\ e.handler = intentHandlers[last.input.target][e.message.intent]
          /\ e.message.from = AgentId(last.self)
          /\ e.message.to = AgentId(last.input.target)
          /\ e.message.intent = last.input.intent
          /\ e.message.payload = last.input.payload

C5_Witness ==
  /\ last.op = "invokeIntent"
  /\ last.self # last.input.target
  /\ Len(last.invoked) = 1
  /\ last.input.intent \in DOMAIN intentHandlers[last.self]
  /\ intentHandlers[last.self][last.input.intent] # last.invoked[1].handler

\* C6: registerIntent never raises, and in every state the handler receive
\* dispatches to for an intent is the one most recently registered for it
\* on that agent; intents never registered stay unhandled.
C6_LastRegistrationWins ==
  /\ last.op = "registerIntent" => last.outcome = Returned(Undefined)
  /\ \A a \in Agents, m \in MessagesIn :
       LET r == receive(a, m) IN
       IF m.intent \in DOMAIN registered[a]
       THEN r.invoked = <<[at |-> a, handler |-> registered[a][m.intent],
                           message |-> m]>>
       ELSE r.invoked = <<>>

C6_Witness ==
  /\ last.op = "registerIntent"
  /\ last.input.replaced \notin {Undefined, last.input.handler}
  /\ receive(last.self,
             [from |-> "agent:Buyer", to |-> AgentId(last.self),
              intent |-> last.input.intent, proof |-> Null,
              payload |-> NoPayload, timestamp |-> "t1"]).invoked[1].handler
       = last.input.handler

\* C7: a send on the transport of (caller, target) is one invokeIntent of
\* the caller against the target with the message's intent, payload and
\* proof: one message built, the same delivery, the same outcome.
C7_SendIsInvokeIntent ==
  last.op = "send" =>
     /\ Len(last.built) = 1
     /\ LET t == last.input.transport
            m == last.input.message
            r == invokeIntent(t.caller, t.target, m.intent, m.payload, m.proof,
                              last.built[1].timestamp)
        IN /\ last.built = r.built
           /\ last.received = r.received
           /\ last.invoked = r.invoked
           /\ last.outcome = r.outcome

C7_Witness ==
  /\ last.op = "send"
  /\ last.input.message.proof = "ledger:tx"
  /\ Len(last.invoked) = 1
  /\ last.outcome.kind = "value"

\* C9: a step changes an agent's intent table only if it is registerIntent
\* on that agent; receive, invokeIntent, callMethod and send leave every
\* table as it was, whether they succeed or fail, and any of them that
\* reaches an agent with a handler for the intent gets that handler run,
\* whatever call came before.
C9_OnlyRegisterIntentMutates ==
  [][ /\ \A a \in Agents :
           intentHandlers'[a] # intentHandlers[a] =>
              last'.op = "registerIntent" /\ last'.self = a
      /\ last'.op \in CallOps =>
           /\ intentHandlers' = intentHandlers
           /\ \A i \in 1..Len(last'.received) :
                LET e == last'.received[i] IN
                e.message.intent \in DOMAIN intentHandlers[e.at] =>
                  last'.invoked = <<[at |-> e.at,
                                     handler |-> intentHandlers[e.at][e.message.intent],
                                     message |-> e.message]>>
    ]_vars

C9_Witness ==
  /\ last.op = "callMethod"
  /\ last.outcome = Thrown("UnknownMethod")
  /\ "agent:ProposeContract" \in DOMAIN intentHandlers[last.input.target]


(***************************************************************************)
(* The generator and the module it emits, run against the runtime: the     *)
(* interface source is any sequence of up to MaxOps operations; its        *)
(* registrar is bound to the seller and its client to the transport from   *)
(* the buyer to the seller, as the demo does.                              *)
(***************************************************************************)
mRenegotiate ==
  Op("proposeContract",
     <<Attr("Intent", "object", <<Quote, "agent:Renegotiate", Quote>>)>>,
     <<Arg("data", TWrap(TName("ContractData")))>>,
     TGeneric("Promise", <<TWrap(TName("Outcome"))>>))

GenMembers == {mProposeContract, mExecutePayment, mPing, mRenegotiate}
GenIfaces == {Iface(ms) : ms \in UNION {[1..n -> GenMembers] : n \in 0..MaxOps}}

InitGen ==
  /\ impl = "js"
  /\ idl \in GenIfaces
  /\ interfaceDef = [a \in Agents |-> loadAgentInterface(impl, idl)]
  /\ intentHandlers = [a \in Agents |-> EmptyTable]
  /\ registered = [a \in Agents |-> EmptyTable]
  /\ last = Ran("new", "buyer", <<>>, NoTrace @@ [outcome |-> Returned(Undefined)])
  /\ generated = NotGenerated
  /\ calls = <<>>
  /\ blockedOn = 0

Generate ==
  /\ ~generated.done
  /\ generated' = generate(idl)
  /\ UNCHANGED <<runtimeVars, idl, asyncVars>>

RegisterHandlers ==
  \E flavour \in Flavours :
    /\ generated.done
    /\ Step("registerHandlers", "seller", [flavour |-> flavour],
            registerHandlers(flavour, generated[flavour], "seller"))
    /\ UNCHANGED registered

ClientCall ==
  \E flavour \in Flavours, args \in ArgLists, now \in Timestamps :
    \E opName \in DOMAIN ObjectLiteral(generated[flavour].client) :
      /\ generated.done
      /\ Step("client", "buyer",
              [flavour |-> flavour, opName |-> opName, args |-> args],
              clientCall(generated[flavour],
                         createRuntimeTransport("buyer", "seller"),
                         opName, args, now))
      /\ UNCHANGED registered

NextGen == Generate \/ RegisterHandlers \/ ClientCall

SpecGen == InitGen /\ [][NextGen]_vars

\* C8: in both emitted flavours, for every operation the registrar binds,
\* the intent the client stub of that operation sends is the intent the
\* registrar registers that operation's handler under; a client call
\* carries exactly that intent.
C8_SameIntentBothHalves ==
  /\ \A f \in Flavours :
       LET module == generated[f] IN
       \A i \in 1..Len(module.registrar) :
         LET op == module.registrar[i].handlerKey IN
         /\ op \in DOMAIN ObjectLiteral(module.client)
         /\ EvalIntent(module, ObjectLiteral(module.client)[op].intent)
              = EvalIntent(module, module.registrar[i].intent)
  /\ last.op = "client" =>
       LET module == generated[last.input.flavour] IN
       \A i \in 1..Len(module.registrar) :
         module.registrar[i].handlerKey = last.input.opName =>
           last.built[1].intent = EvalIntent(module, module.registrar[i].intent)

C8_Witness ==
  /\ last.op = "client"
  /\ last.input.opName = "proposeContract"
  /\ Len(generated.ts.registrar) = 2
  /\ generated.ts.registrar[1].handlerKey = generated.ts.registrar[2].handlerKey
  /\ last.built[1].intent = "agent:Renegotiate"
  /\ Len(last.invoked) = 1


(***************************************************************************)
(* Calls in time.  receive, invokeIntent and callMethod are async          *)
(* functions without an await of their own: a call runs, in the caller's   *)
(* turn, down to the handler, which is entered before the call returns its *)
(* promise.  The handler finishes in a later turn (or at once), and the    *)
(* call's promise, which was resolved with the handler's, settles after    *)
(* that.  A caller that awaits a call is suspended until the call's        *)
(* promise settles.  The buyer issues up to MaxCalls calls to the seller,  *)
(* whose handlers are registered as the demo registers them.               *)
(***************************************************************************)
InitAsync ==
  /\ impl \in Impls
  /\ idl = RuntimeIface
  /\ interfaceDef = [a \in Agents |-> loadAgentInterface(impl, idl)]
  /\ intentHandlers =
       [a \in Agents |->
          IF a = "seller"
          THEN ("agent:ProposeContract" :> "h1") @@ ("agent:ExecutePayment" :> "h2")
          ELSE EmptyTable]
  /\ registered = intentHandlers
  /\ last = Ran("new", "buyer", <<>>, NoTrace @@ [outcome |-> Returned(Undefined)])
  /\ generated = NotGenerated
  /\ calls = <<>>
  /\ blockedOn = 0

Issued ==
  { [via |-> "invokeIntent", what |-> "agent:ProposeContract"],
    [via |-> "invokeIntent", what |-> ""],
    [via |-> "callMethod", what |-> "executePayment"],
    [via |-> "callMethod", what |-> "cancel"],
    [via |-> "send", what |-> "agent:ExecutePayment"] }

Run(c) ==
  CASE c.via = "invokeIntent" ->
         invokeIntent("buyer", "seller", c.what, [k \in {"data"} |-> "v1"],
                      Undefined, "t1")
    [] c.via = "callMethod" ->
         callMethod("buyer", "seller", c.what, <<"v1">>, "t1")
    [] c.via = "send" ->
         send(createRuntimeTransport("buyer", "seller"),
              [intent |-> c.what, payload |-> [k \in {"data"} |-> "v1"],
               proof |-> Null],
              "t1")

Entered == Cardinality({i \in 1..Len(calls) : calls[i].entry # 0})

\* The promise of a call settles once what it was resolved with has
\* settled: a rejection of the call's own, or the promise of the handler.
CanSettle_fireAndForget(call) == TRUE

CanSettle(call) == call.handler # "running"

IssueCall ==
  \E c \in Issued, awaited \in BOOLEAN :
    /\ blockedOn = 0
    /\ Len(calls) < MaxCalls
    /\ LET r == Run(c) IN
       /\ intentHandlers' = r.tables
       /\ calls' = Append(calls,
            [ via |-> c.via, what |-> c.what, awaited |-> awaited,
              handler |-> IF r.invoked = <<>> THEN "none" ELSE "running",
              entry |-> IF r.invoked = <<>> THEN 0 ELSE Entered + 1,
              result |-> r.outcome,
              settled |-> FALSE ])
    /\ blockedOn' = IF awaited THEN Len(calls) + 1 ELSE 0
    /\ UNCHANGED <<impl, interfaceDef, registered, last, genVars>>

HandlerSettle ==
  \E i \in 1..Len(calls) :
    /\ calls[i].handler = "running"
    /\ calls' = [calls EXCEPT ![i].handler = "done"]
    /\ UNCHANGED <<runtimeVars, genVars, blockedOn>>

CallSettle ==
  \E i \in 1..Len(calls) :
    /\ ~calls[i].settled
    /\ CanSettle(calls[i])
    /\ calls' = [calls EXCEPT ![i].settled = TRUE]
    /\ blockedOn' = IF blockedOn = i THEN 0 ELSE blockedOn
    /\ UNCHANGED <<runtimeVars, genVars>>

NextAsync == IssueCall \/ HandlerSettle \/ CallSettle

SpecAsync == InitAsync /\ [][NextAsync]_vars

\* C10: the seller's handlers are entered in the order the buyer issued the
\* calls; a call has not settled while its handler runs; and once a later
\* call exists, every earlier call that was awaited has settled with its
\* handler finished, so two handlers run at the same time only if the
\* earlier of the two calls was not awaited.
C10_OrderAndAwait ==
  /\ \A i \in 1..Len(calls), j \in 1..Len(calls) :
       (i < j /\ calls[i].entry # 0 /\ calls[j].entry # 0)
         => calls[i].entry < calls[j].entry
  /\ \A i \in 1..Len(calls) :
       /\ calls[i].entry # 0 <=> calls[i].handler # "none"
       /\ calls[i].settled => calls[i].handler # "running"
  /\ \A i \in 1..Len(calls), j \in 1..Len(calls) :
       (i < j /\ calls[i].awaited)
         => calls[i].settled /\ calls[i].handler # "running"
  /\ \A i \in 1..Len(calls), j \in 1..Len(calls) :
       (i < j /\ calls[i].handler = "running" /\ calls[j].handler = "running")
         => ~calls[i].awaited

C10_Witness ==
  /\ Len(calls) = 3
  /\ calls[1].awaited /\ calls[1].settled /\ calls[1].handler = "done"
  /\ ~calls[2].awaited
  /\ calls[2].handler = "running" /\ calls[3].handler = "running"
  /\ calls[2].entry = 2 /\ calls[3].entry = 3


(***************************************************************************)
(* The conformance validator of the test harness.  A finding is one entry  *)
(* of the returned error list: `kind` names the message, `level` and `on`  *)
(* the element it is about, `name` the attribute, field or type the        *)
(* message mentions.  A rule set is a JSON object; a field it does not     *)
(* carry is absent from its domain.                                        *)
(***************************************************************************)
Finding(kind, level, on, name) ==
  [kind |-> kind, level |-> level, on |-> on, name |-> name]

\* rules.<key> || []
RuleList(rules, key) == IF key \in DOMAIN rules THEN rules[key] ELSE <<>>

RECURSIVE Flatten(_)
Flatten(lists) ==
  IF lists = <<>> THEN <<>> ELSE Head(lists) \o Flatten(Tail(lists))

RECURSIVE idlTypeName(_)
idlTypeName(t) ==
  CASE t.kind = "none" -> Null
    [] t.kind = "name" -> t.name
    [] t.kind = "wrap" -> idlTypeName(t.inner[1])
    [] t.kind \in {"union", "generic"} ->
         Join([i \in 1..Len(t.inner) |->
                 LET n == idlTypeName(t.inner[i]) IN
                 IF n = Null THEN "" ELSE n], "|")

\* one "unknown attribute" finding per attribute whose name is not allowed
unknownAttrs(allowed, attrs, level, on) ==
  Flatten([i \in 1..Len(attrs) |->
             IF attrs[i].name \in allowed THEN <<>>
             ELSE <<Finding("UnknownExtensionAttribute", level, on, attrs[i].name)>>])

\* the required-attribute loop that reports an attribute only when the
\* reader finds none at all
missingAttrs_nullOnly(required, attrs, level, on) ==
  Flatten([i \in 1..Len(required) |->
             IF getExtAttrValue(attrs, required[i]) = Null
             THEN <<Finding("MissingRequiredAttribute", level, on, required[i])>>
             ELSE <<>>])

\* the required-attribute loop with its test the wrong way round
missingAttrs_inverted(required, attrs, level, on) ==
  Flatten([i \in 1..Len(required) |->
             IF ~Falsy(getExtAttrValue(attrs, required[i]))
             THEN <<Finding("MissingRequiredAttribute", level, on, required[i])>>
             ELSE <<>>])

\* one "missing required attribute" finding per required name whose value
\* reads falsy
missingAttrs(required, attrs, level, on) ==
  Flatten([i \in 1..Len(required) |->
             IF Falsy(getExtAttrValue(attrs, required[i]))
             THEN <<Finding("MissingRequiredAttribute", level, on, required[i])>>
             ELSE <<>>])

hasDelegationParam(member, delegationParamType) ==
  \E i \in 1..Len(member.arguments) :
    idlTypeName(member.arguments[i].idlType) = delegationParamType

delegationCheck(member, delegationParamType, on) ==
  IF Falsy(getExtAttrValue(member.extAttrs, "Delegation")) THEN <<>>
  ELSE IF hasDelegationParam(member, delegationParamType) THEN <<>>
       ELSE <<Finding("MissingDelegationParameter", "operation", on,
                      delegationParamType)>>

memberFindings(coreRules, iface, member) ==
  LET on == iface.name \o "." \o member.name IN
  IF member.type # "operation" THEN <<>>
  ELSE unknownAttrs({RuleList(coreRules, "allowedExtAttrs")[i] :
                       i \in 1..Len(RuleList(coreRules, "allowedExtAttrs"))},
                    member.extAttrs, "operation", on)
       \o missingAttrs(RuleList(coreRules, "requiredOperationAttrs"),
                       member.extAttrs, "operation", on)
       \o delegationCheck(member,
                          OrElse(Field(coreRules, "delegationParamType"),
                                 "DelegationContext"),
                          on)

ifaceFindings(coreRules, iface) ==
  unknownAttrs({RuleList(coreRules, "allowedExtAttrs")[i] :
                  i \in 1..Len(RuleList(coreRules, "allowedExtAttrs"))},
               iface.extAttrs, "interface", iface.name)
  \o missingAttrs(RuleList(coreRules, "requiredInterfaceAttrs"),
                  iface.extAttrs, "interface", iface.name)
  \o Flatten([i \in 1..Len(iface.members) |->
                memberFindings(coreRules, iface, iface.members[i])])

IsInterface(def) == def.type = "interface"

\* validateIdlAst that returns an empty list when there is no interface
validateIdlAst_emptyOnNone(ast, coreRules, profile) ==
  LET interfaces == SelectSeq(ast, IsInterface) IN
  IF Len(interfaces) = 0 THEN <<>>
  ELSE Flatten([i \in 1..Len(interfaces) |-> ifaceFindings(coreRules, interfaces[i])])
       \o (IF profile = "delegation" /\ Falsy(Field(coreRules, "delegationParamType"))
           THEN <<Finding("MissingDelegationRule", "rules", "", "")>>
           ELSE <<>>)

validateIdlAst(ast, coreRules, profile) ==
  LET interfaces == SelectSeq(ast, IsInterface) IN
  IF Len(interfaces) = 0
  THEN <<Finding("NoInterfaceDefinition", "definition", "", "")>>
  ELSE Flatten([i \in 1..Len(interfaces) |-> ifaceFindings(coreRules, interfaces[i])])
       \o (IF profile = "delegation" /\ Falsy(Field(coreRules, "delegationParamType"))
           THEN <<Finding("MissingDelegationRule", "rules", "", "")>>
           ELSE <<>>)


(***************************************************************************)
(* Documents.  A document is a JSON value: null, a string, a number, a     *)
(* boolean or an object.  Reading a property of null throws a TypeError;   *)
(* reading one of a scalar, or one an object does not have, gives          *)
(* undefined.                                                              *)
(***************************************************************************)
JNull == [t |-> "null"]
JUndefined == [t |-> "undefined"]
JStr(s) == [t |-> "string", v |-> s]
\* numbers and booleans are kept by their printed form
JNum(n) == [t |-> "number", v |-> ToString(n)]
JBool(b) == [t |-> "boolean", v |-> IF b THEN "true" ELSE "false"]
JObj(fields) == [t |-> "object", fields |-> fields]

Nullish(v) == v.t \in {"null", "undefined"}
Truthy(v) ==
  CASE v.t \in {"null", "undefined"} -> FALSE
    [] v.t = "string" -> v.v # ""
    [] v.t = "number" -> v.v # "0"
    [] v.t = "boolean" -> v.v = "true"
    [] v.t = "object" -> TRUE

\* v[key], for a v that is not null
Get(v, key) ==
  IF v.t = "object" /\ key \in DOMAIN v.fields THEN v.fields[key] ELSE JUndefined

\* Number.isNaN(Date.parse(v)): Date.parse reads the string form of v
ValidDates == {"2025-01-01T00:00:00Z", "2026-01-01T00:00:00Z"}
NotADate(v) ==
  CASE v.t = "string" -> v.v \notin ValidDates
    [] v.t = "number" -> FALSE
    [] OTHER -> TRUE

missingFields(object, fields, kind) ==
  Flatten([i \in 1..Len(fields) |->
             IF Nullish(Get(object, fields[i]))
             THEN <<Finding(kind, "document", "", fields[i])>>
             ELSE <<>>])

\* the type check of a sub-object against the configured type
invalidType_always(sub, rules, key, kind) ==
  IF Get(sub, "type") # JStr(Field(rules, key))
  THEN <<Finding(kind, "document", "", Field(rules, key))>>
  ELSE <<>>

invalidType(sub, rules, key, kind) ==
  IF ~Falsy(Field(rules, key)) /\ Get(sub, "type") # JStr(Field(rules, key))
  THEN <<Finding(kind, "document", "", Field(rules, key))>>
  ELSE <<>>

invalidTimestamp(object, key) ==
  IF Truthy(Get(object, key)) /\ NotADate(Get(object, key))
  THEN <<Finding("InvalidTimestamp", "document", "", key)>>
  ELSE <<>>

\* the revocation check that trusts a document that carries a proof
revoked_unlessProof(ctx) ==
  IF Get(ctx, "revoked") = JBool(TRUE) /\ ~Truthy(Get(ctx, "proof"))
  THEN <<Finding("RevokedDelegation", "document", "", "revoked")>>
  ELSE <<>>

revoked(ctx) ==
  IF Get(ctx, "revoked") = JBool(TRUE)
  THEN <<Finding("RevokedDelegation", "document", "", "revoked")>>
  ELSE <<>>

validateDelegationContext(ctx, rules) ==
  IF Nullish(ctx) THEN Thrown("TypeError")
  ELSE Returned(
         missingFields(ctx, RuleList(rules, "requiredDelegationFields"),
                       "MissingDelegationField")
         \o (IF Truthy(Get(ctx, "proof"))
             THEN invalidType(Get(ctx, "proof"), rules, "proofType", "InvalidProofType")
             ELSE <<>>)
         \o invalidTimestamp(ctx, "issuedAt")
         \o invalidTimestamp(ctx, "expiresAt")
         \o revoked(ctx))

validateExecutionRecord(record, rules) ==
  IF Nullish(record) THEN Thrown("TypeError")
  ELSE Returned(
         missingFields(record, RuleList(rules, "requiredExecutionFields"),
                       "MissingExecutionField")
         \o invalidTimestamp(record, "timestamp")
         \o (IF Truthy(Get(record, "attestation"))
             THEN missingFields(Get(record, "attestation"),
                                RuleList(rules, "attestationFields"),
                                "MissingAttestationField")
                  \o invalidType(Get(record, "attestation"), rules,
                                 "attestationType", "InvalidAttestationType")
             ELSE <<>>))


(***************************************************************************)
(* The vectors the harness runs the validators on: a parsed definition     *)
(* with a rule set and a profile, or a document with a rule set.  A run    *)
(* starts from one vector and applies the validator of its kind; `last`    *)
(* holds the vector, then the validator's call and what it returned.       *)
(***************************************************************************)
Str(s) == <<Quote, s, Quote>>
Bare(n) == Attr(n, "none", <<>>)

IfaceAttrLists ==
  { <<>>,
    <<Attr("Context", "object", Str("https://example.org/context"))>>,
    <<Attr("Context", "object", Str("https://example.org/context")),
      Attr("Semantic", "object", Str("https://example.org/intent.ttl"))>>,
    <<Attr("Semantic", "object", Str("https://example.org/intent.ttl"))>>,
    <<Attr("Context", "object", <<Quote, Quote>>)>>,
    <<Bare("Context")>>,
    <<Attr("Context", "object", Str("https://example.org/context")),
      Attr("Vendor", "object", Str("x"))>> }

vPerformTask ==
  Op("performTask",
     <<Attr("Intent", "object", Str("agent:PerformTask")),
       Attr("Delegation", "object", Str("required"))>>,
     <<Arg("ctx", TWrap(TName("DelegationContext"))),
       Arg("request", TWrap(TName("TaskRequest")))>>,
     TGeneric("Promise", <<TWrap(TName("TaskResult"))>>))
vNoContext ==
  Op("performTask",
     <<Attr("Intent", "object", Str("agent:PerformTask")),
       Attr("Delegation", "object", Str("required"))>>,
     <<Arg("request", TWrap(TName("TaskRequest")))>>,
     TGeneric("Promise", <<TWrap(TName("TaskResult"))>>))
vBareDelegation ==
  Op("delegate",
     <<Attr("Intent", "object", Str("agent:Delegate")), Bare("Delegation")>>,
     <<Arg("request", TWrap(TName("TaskRequest")))>>,
     TGeneric("Promise", <<TWrap(TName("TaskResult"))>>))
vContextList ==
  Op("performAll",
     <<Attr("Delegation", "object", Str("required"))>>,
     <<Arg("request", TWrap(TName("TaskRequest"))),
       Arg("ctxs", TGeneric("sequence", <<TWrap(TName("DelegationContext"))>>))>>,
     TWrap(TName("undefined")))
vEmptyIntent ==
  Op("ping", <<Attr("Intent", "object", <<Quote, Quote>>)>>, <<>>,
     TWrap(TName("undefined")))
vVendor ==
  Op("status",
     <<Attr("Vendor", "object", Str("x")),
       Attr("Intent", "object", Str("agent:Status")),
       Attr("Vendor", "object", Str("y"))>>,
     <<>>, TWrap(TName("DOMString")))
vAttribute ==
  [type |-> "attribute", name |-> "version",
   extAttrs |-> <<Attr("Vendor", "object", Str("x"))>>,
   arguments |-> <<>>, idlType |-> TWrap(TName("DOMString"))]

ValMembers ==
  {vPerformTask, vNoContext, vBareDelegation, vContextList, vEmptyIntent,
   vVendor, vAttribute}

ValIface(n, attrs, members) ==
  [type |-> "interface", name |-> n, extAttrs |-> attrs, members |-> members]

ValIfaces ==
  { ValIface("AgentTask", attrs, members) :
      attrs \in IfaceAttrLists,
      members \in UNION {[1..n -> ValMembers] : n \in 0..MaxOps} }

vDictionary ==
  [type |-> "dictionary", name |-> "TaskRequest", extAttrs |-> <<>>,
   members |-> <<>>]
vSecondIfaces ==
  { ValIface("Audit", <<>>, <<vNoContext>>),
    ValIface("Audit",
             <<Attr("Context", "object", Str("https://example.org/context"))>>,
             <<vPerformTask>>) }

Asts ==
  {<<>>, <<vDictionary>>}
    \cup {<<i>> : i \in ValIfaces}
    \cup {<<vDictionary, i>> : i \in ValIfaces}
    \cup {<<i, j>> : i \in ValIfaces, j \in vSecondIfaces}

NoRules == [k \in {} |-> <<>>]
KnownAttrs == <<"Context", "Semantic", "Intent", "Proof", "Delegation", "Capability">>
CoreRules ==
  { NoRules,
    ("allowedExtAttrs" :> KnownAttrs),
    ("requiredInterfaceAttrs" :> <<"Context">>),
    ("allowedExtAttrs" :> KnownAttrs) @@ ("requiredInterfaceAttrs" :> <<"Context">>)
      @@ ("requiredOperationAttrs" :> <<"Intent">>)
      @@ ("delegationParamType" :> "DelegationContext"),
    ("allowedExtAttrs" :> KnownAttrs)
      @@ ("requiredInterfaceAttrs" :> <<"Context", "Semantic">>)
      @@ ("delegationParamType" :> "Grant"),
    ("allowedExtAttrs" :> <<"Intent", "Delegation">>)
      @@ ("requiredInterfaceAttrs" :> <<"Context">>)
      @@ ("delegationParamType" :> ""),
    ("allowedExtAttrs" :> KnownAttrs)
      @@ ("requiredOperationAttrs" :> <<"Intent", "Proof">>) }
Profiles == {"all", "delegation"}

IdlVectors == [ast : Asts, coreRules : CoreRules, profile : Profiles]

Obj(delegator, proof, issuedAt, expiresAt, isRevoked) ==
  JObj([delegator |-> delegator, proof |-> proof, issuedAt |-> issuedAt,
        expiresAt |-> expiresAt, revoked |-> isRevoked])
SubObjects ==
  { JObj([type |-> JStr("Ed25519Signature2020"), signature |-> JStr("z3a")]),
    JObj([type |-> JStr("JsonWebSignature2020"), signature |-> JStr("z3a")]),
    JObj([type |-> JStr("Ed25519Signature2020")]),
    JObj([type |-> JStr("Ed25519Signature2020"), signature |-> JNull]),
    JObj([signature |-> JStr("z3a")]),
    JObj([type |-> JNum(1), signature |-> JStr("z3a")]) }
Scalars == {JNull, JStr("text"), JStr(""), JNum(0), JNum(7), JBool(TRUE)}

DelegationContexts ==
  Scalars \cup
  { Obj(delegator, proof, issuedAt, expiresAt, isRevoked) :
      delegator \in {JUndefined, JNull, JStr("did:example:alice")},
      proof \in SubObjects \cup {JUndefined, JNull, JStr("sig")},
      issuedAt \in {JUndefined, JStr("2025-01-01T00:00:00Z"), JStr("yesterday"),
                    JBool(TRUE)},
      expiresAt \in {JUndefined, JStr("2026-01-01T00:00:00Z"), JStr("never")},
      isRevoked \in {JUndefined, JBool(TRUE), JBool(FALSE), JStr("true")} }
DelegationRules ==
  { NoRules,
    ("requiredDelegationFields" :> <<"delegator", "proof">>),
    ("proofType" :> "Ed25519Signature2020"),
    ("requiredDelegationFields" :> <<"delegator", "proof">>)
      @@ ("proofType" :> "Ed25519Signature2020") }

ExecutionRecords ==
  Scalars \cup
  { JObj([executor |-> executor, timestamp |-> timestamp,
          attestation |-> attestation]) :
      executor \in {JUndefined, JNull, JStr("did:example:bob")},
      timestamp \in {JUndefined, JStr("2025-01-01T00:00:00Z"), JStr("yesterday"),
                     JNum(7), JObj([at |-> JStr("2025-01-01T00:00:00Z")])},
      attestation \in SubObjects \cup {JUndefined, JNull, JStr("sig")} }
AuditRules ==
  { NoRules,
    ("requiredExecutionFields" :> <<"executor", "timestamp">>),
    ("attestationFields" :> <<"type", "signature">>),
    ("attestationType" :> "Ed25519Signature2020"),
    ("requiredExecutionFields" :> <<"executor", "timestamp">>)
      @@ ("attestationFields" :> <<"type", "signature">>)
      @@ ("attestationType" :> "Ed25519Signature2020") }

Vector(kind, input) ==
  Ran(kind, "harness", input, NoTrace @@ [outcome |-> Returned(<<>>)])

InitVal ==
  /\ impl = "js"
  /\ idl = RuntimeIface
  /\ interfaceDef = [a \in Agents |-> loadAgentInterface(impl, idl)]
  /\ intentHandlers = [a \in Agents |-> EmptyTable]
  /\ registered = [a \in Agents |-> EmptyTable]
  /\ generated = NotGenerated
  /\ calls = <<>>
  /\ blockedOn = 0
  /\ \/ \E v \in IdlVectors : last = Vector("idl-vector", v)
     \/ \E ctx \in DelegationContexts, rules \in DelegationRules :
          last = Vector("delegation-context-vector", [doc |-> ctx, rules |-> rules])
     \/ \E record \in ExecutionRecords, rules \in AuditRules :
          last = Vector("execution-record-vector", [doc |-> record, rules |-> rules])

Validated(op, outcome) ==
  /\ last' = Ran(op, "harness", last.input, NoTrace @@ [outcome |-> outcome])
  /\ UNCHANGED <<impl, interfaceDef, intentHandlers, registered, genVars, asyncVars>>

ValidateIdlAst ==
  /\ last.op = "idl-vector"
  /\ Validated("validateIdlAst",
       Returned(validateIdlAst(last.input.ast, last.input.coreRules,
                               last.input.profile)))

ValidateDelegationContext ==
  /\ last.op = "delegation-context-vector"
  /\ Validated("validateDelegationContext",
       validateDelegationContext(last.input.doc, last.input.rules))

ValidateExecutionRecord ==
  /\ last.op = "execution-record-vector"
  /\ Validated("validateExecutionRecord",
       validateExecutionRecord(last.input.doc, last.input.rules))

NextVal == ValidateIdlAst \/ ValidateDelegationContext \/ ValidateExecutionRecord

SpecVal == InitVal /\ [][NextVal]_vars

\* what the validator returned
Errors == last.outcome.value
HasFinding(kind) == \E i \in 1..Len(Errors) : Errors[i].kind = kind
Count(findings, Test(_)) == Cardinality({i \in 1..Len(findings) : Test(findings[i])})


(***************************************************************************)
(* Properties of the definition check.                                     *)
(***************************************************************************)
Interfaces == SelectSeq(last.input.ast, IsInterface)
Operations(iface) == SelectOps(iface.members)
OpPositions ==
  UNION {{<<k, l>> : l \in 1..Len(Operations(Interfaces[k]))} :
           k \in 1..Len(Interfaces)}
OpAt(kl) == Operations(Interfaces[kl[1]])[kl[2]]
OpPath(kl) == Interfaces[kl[1]].name \o "." \o OpAt(kl).name
RequiredAt(level) ==
  RuleList(last.input.coreRules,
           IF level = "interface" THEN "requiredInterfaceAttrs"
           ELSE "requiredOperationAttrs")
AllowedNames ==
  {RuleList(last.input.coreRules, "allowedExtAttrs")[i] :
     i \in 1..Len(RuleList(last.input.coreRules, "allowedExtAttrs"))}
DelegationType ==
  OrElse(Field(last.input.coreRules, "delegationParamType"), "DelegationContext")
CheckedDefinition == last.op = "validateIdlAst" /\ Len(Interfaces) > 0

\* C11: a definition without any interface definition is reported as
\* NoInterfaceDefinition (and as nothing else), whatever the rule set and
\* the profile are.
C11_NoInterfaceDefinition ==
  (last.op = "validateIdlAst" /\ Len(Interfaces) = 0)
    => /\ last.outcome.kind = "value"
       /\ Errors = <<Finding("NoInterfaceDefinition", "definition", "", "")>>

C11_Witness ==
  /\ last.op = "validateIdlAst"
  /\ last.input.ast = <<vDictionary>>
  /\ last.input.profile = "delegation"
  /\ last.input.coreRules = NoRules
  /\ HasFinding("NoInterfaceDefinition")

\* The number of missing-required-attribute findings about attribute r on
\* the elements at `on`, and the number of elements at `on` on which r reads
\* as absent, for a given reading of "absent".
MissingFound(level, on, r) ==
  Count(Errors, LAMBDA f : f = Finding("MissingRequiredAttribute", level, on, r))
InterfacesWithout(Absent(_), on, r) ==
  Cardinality({k \in 1..Len(Interfaces) :
                 /\ Interfaces[k].name = on
                 /\ Absent(getExtAttrValue(Interfaces[k].extAttrs, r))})
OperationsWithout(Absent(_), on, r) ==
  Cardinality({kl \in OpPositions :
                 /\ OpPath(kl) = on
                 /\ Absent(getExtAttrValue(OpAt(kl).extAttrs, r))})
RequiredFindings(Absent(_)) ==
  CheckedDefinition =>
    /\ \A k \in 1..Len(Interfaces), i \in 1..Len(RequiredAt("interface")) :
         LET r == RequiredAt("interface")[i] IN
         MissingFound("interface", Interfaces[k].name, r)
           = InterfacesWithout(Absent, Interfaces[k].name, r)
    /\ \A kl \in OpPositions, i \in 1..Len(RequiredAt("operation")) :
         LET r == RequiredAt("operation")[i] IN
         MissingFound("operation", OpPath(kl), r)
           = OperationsWithout(Absent, OpPath(kl), r)
IsNull(v) == v = Null

\* C12 as stated: a required attribute is reported missing on an element
\* exactly when the reader returns null for it there; one that reads as a
\* string, the empty string included, is not reported.
C12_MissingWhenNull == RequiredFindings(IsNull)

\* C12: a required attribute is reported missing on an interface or an
\* operation, once, exactly when the reader returns null or the empty
\* string for it on that element; one that reads as a non-empty string is
\* not reported.
C12_MissingWhenFalsy == RequiredFindings(Falsy)

C12_Witness ==
  /\ CheckedDefinition
  /\ Len(Interfaces) = 1
  /\ getExtAttrValue(Interfaces[1].extAttrs, "Context") = ""
  /\ MissingFound("interface", "AgentTask", "Context") = 1
  /\ \E kl \in OpPositions :
       /\ getExtAttrValue(OpAt(kl).extAttrs, "Intent") = ""
       /\ MissingFound("operation", OpPath(kl), "Intent") = 1
  /\ \E kl \in OpPositions :
       /\ ~Falsy(getExtAttrValue(OpAt(kl).extAttrs, "Intent"))
       /\ MissingFound("operation", OpPath(kl), "Intent") = 0

\* C13 as stated: for every operation that declares the Delegation
\* attribute, with a value or without one, a missing-delegation-parameter
\* finding is emitted exactly when none of its parameters has the delegation
\* parameter type name in force.
C13_DelegationParameter ==
  CheckedDefinition =>
    \A kl \in OpPositions :
      FindAttr(OpAt(kl).extAttrs, "Delegation") # <<>> =>
        Count(Errors,
              LAMBDA f : f = Finding("MissingDelegationParameter", "operation",
                                     OpPath(kl), DelegationType))
          = Cardinality({p \in OpPositions :
                           /\ OpPath(p) = OpPath(kl)
                           /\ FindAttr(OpAt(p).extAttrs, "Delegation") # <<>>
                           /\ ~hasDelegationParam(OpAt(p), DelegationType)})

\* The number of unknown-attribute findings about attribute name n on the
\* elements at `on`, and the number of occurrences of n there.
UnknownFound(level, on, n) ==
  Count(Errors, LAMBDA f : f = Finding("UnknownExtensionAttribute", level, on, n))
InterfaceOccurrences(on, n) ==
  Cardinality(UNION {{<<j, a>> : a \in {a \in 1..Len(Interfaces[j].extAttrs) :
                                          Interfaces[j].extAttrs[a].name = n}} :
                       j \in {j \in 1..Len(Interfaces) : Interfaces[j].name = on}})
OperationOccurrences(on, n) ==
  Cardinality(UNION {{<<p, a>> : a \in {a \in 1..Len(OpAt(p).extAttrs) :
                                          OpAt(p).extAttrs[a].name = n}} :
                       p \in {p \in OpPositions : OpPath(p) = on}})
AttrNames(attrs) == {attrs[a].name : a \in 1..Len(attrs)}

\* Every violation of the three kinds has its finding, with "lacks its
\* delegation parameter" read by Declares: which operations owe one.
EveryViolationReported(Declares(_)) ==
  CheckedDefinition =>
    /\ last.outcome.kind = "value"
    /\ \A k \in 1..Len(Interfaces) :
         \A n \in AttrNames(Interfaces[k].extAttrs) \ AllowedNames :
           UnknownFound("interface", Interfaces[k].name, n)
             = InterfaceOccurrences(Interfaces[k].name, n)
    /\ \A kl \in OpPositions :
         \A n \in AttrNames(OpAt(kl).extAttrs) \ AllowedNames :
           UnknownFound("operation", OpPath(kl), n)
             = OperationOccurrences(OpPath(kl), n)
    /\ \A k \in 1..Len(Interfaces), i \in 1..Len(RequiredAt("interface")) :
         LET r == RequiredAt("interface")[i] IN
         MissingFound("interface", Interfaces[k].name, r)
           >= InterfacesWithout(IsNull, Interfaces[k].name, r)
    /\ \A kl \in OpPositions, i \in 1..Len(RequiredAt("operation")) :
         LET r == RequiredAt("operation")[i] IN
         MissingFound("operation", OpPath(kl), r)
           >= OperationsWithout(IsNull, OpPath(kl), r)
    /\ \A kl \in OpPositions :
         Count(Errors,
               LAMBDA f : f = Finding("MissingDelegationParameter", "operation",
                                      OpPath(kl), DelegationType))
           >= Cardinality({p \in OpPositions :
                             /\ OpPath(p) = OpPath(kl)
                             /\ Declares(OpAt(p))
                             /\ ~hasDelegationParam(OpAt(p), DelegationType)})
DeclaresDelegation(member) == FindAttr(member.extAttrs, "Delegation") # <<>>

\* C14 as stated: for a definition with at least one interface the
\* validator returns (it does not throw), and the list holds one finding
\* for every attribute occurrence outside the allowed set, one for every
\* required attribute missing on an element, and one for every operation
\* that declares Delegation and lacks the delegation parameter, over all
\* interfaces and operations.
C14_EveryViolationReported == EveryViolationReported(DeclaresDelegation)

\* The definition with attribute r given a value on every interface on which
\* it read as absent: the first r there takes the value, or r is added.
FirstAttr(attrs, r) == CHOOSE a \in 1..Len(attrs) :
                         /\ attrs[a].name = r
                         /\ \A b \in 1..(a - 1) : attrs[b].name # r
SetAttr(attrs, r, value) ==
  IF FindAttr(attrs, r) = <<>>
  THEN Append(attrs, Attr(r, "object", Str(value)))
  ELSE [attrs EXCEPT ![FirstAttr(attrs, r)] = Attr(r, "object", Str(value))]
WithAttr(ast, r, value) ==
  [d \in 1..Len(ast) |->
     IF IsInterface(ast[d]) /\ Falsy(getExtAttrValue(ast[d].extAttrs, r))
     THEN [ast[d] EXCEPT !.extAttrs = SetAttr(@, r, value)]
     ELSE ast[d]]
AddedValues == {"https://example.org/context", "x"}

\* the findings are findings that r is missing on an interface, and nothing else
OnlyMissing(r) ==
  /\ CheckedDefinition
  /\ Errors # <<>>
  /\ \A i \in 1..Len(Errors) :
       /\ Errors[i].kind = "MissingRequiredAttribute"
       /\ Errors[i].level = "interface"
       /\ Errors[i].name = r
Revalidated(r, value) ==
  validateIdlAst(WithAttr(last.input.ast, r, value), last.input.coreRules,
                 last.input.profile)
MissingThenFixed(RuleSetOk(_)) ==
  CheckedDefinition =>
    \A i \in 1..Len(RequiredAt("interface")) :
      LET r == RequiredAt("interface")[i] IN
      /\ (\E k \in 1..Len(Interfaces) :
            Falsy(getExtAttrValue(Interfaces[k].extAttrs, r)))
           => \E k \in 1..Len(Interfaces) :
                MissingFound("interface", Interfaces[k].name, r) >= 1
      /\ (OnlyMissing(r) /\ RuleSetOk(r))
           => \A value \in AddedValues : Revalidated(r, value) = <<>>
AnyRuleSet(r) == TRUE
Allows(r) == r \in AllowedNames

\* C15 as stated: for every rule set, a definition whose only violation is
\* that a required interface-level attribute R is missing has at least one
\* missing-required-attribute finding, and none at all once R is given a
\* value.
C15_MissingThenFixed == MissingThenFixed(AnyRuleSet)

\* C15: for every rule set whose allowed set contains R, a definition whose
\* only findings are that the required interface-level attribute R is
\* missing has at least one such finding, and no finding at all once R is
\* given a non-empty string value on the interfaces that lacked it.
C15_MissingThenFixedIfAllowed == MissingThenFixed(Allows)

C15_Witness ==
  /\ OnlyMissing("Context")
  /\ "Context" \in AllowedNames
  /\ Len(Interfaces) = 1
  /\ Interfaces[1].extAttrs = <<Bare("Context")>>
  /\ Interfaces[1].members = <<vPerformTask>>
  /\ last.input.profile = "delegation"
  /\ Revalidated("Context", "x") = <<>>


(***************************************************************************)
(* Properties of the document checks.                                      *)
(***************************************************************************)
CheckedDocument ==
  last.op \in {"validateDelegationContext", "validateExecutionRecord"}
Doc == last.input.doc
DocRules == last.input.rules
FindingsOf(kind, name) ==
  Count(Errors, LAMBDA f : f = Finding(kind, "document", "", name))

SubObject ==
  Get(Doc, IF last.op = "validateDelegationContext" THEN "proof" ELSE "attestation")
TypeRule ==
  IF last.op = "validateDelegationContext" THEN "proofType" ELSE "attestationType"
TypeFinding ==
  IF last.op = "validateDelegationContext" THEN "InvalidProofType"
  ELSE "InvalidAttestationType"
NestedRequired ==
  IF last.op = "validateDelegationContext" THEN <<>>
  ELSE RuleList(DocRules, "attestationFields")

C18_DocumentChecksTotal ==
  CheckedDocument => last.outcome.kind = "value"


(***************************************************************************)
(* The interface model and its consumers.  The definition is any sequence  *)
(* of up to MaxOps operations, some without an Intent attribute, some      *)
(* declaring a name a second time; either implementation of the SDK builds *)
(* the model, the generator emits both modules from the same definition,   *)
(* and the buyer calls the seller through callMethod and through the       *)
(* generated client.                                                       *)
(***************************************************************************)
mProposeSigned ==
  Op("proposeContract",
     <<Attr("Intent", "object", Str("agent:Renegotiate")),
       Attr("Proof", "object", Str("ledger:tx"))>>,
     <<Arg("terms", TWrap(TName("ContractData"))),
       Arg("deadline", TWrap(TName("DOMString")))>>,
     TGeneric("Promise", <<TWrap(TName("Receipt"))>>))

ModelMembers == {mProposeContract, mProposeSigned, mExecutePayment, mPing}
ModelIfaces ==
  {Iface(ms) : ms \in UNION {[1..n -> ModelMembers] : n \in 0..MaxOps}}

InitModel ==
  /\ impl \in Impls
  /\ idl \in ModelIfaces
  /\ interfaceDef = [a \in Agents |-> loadAgentInterface(impl, idl)]
  /\ intentHandlers = [a \in Agents |-> EmptyTable]
  /\ registered = [a \in Agents |-> EmptyTable]
  /\ last = Ran("new", "buyer", <<>>, NoTrace @@ [outcome |-> Returned(Undefined)])
  /\ generated = NotGenerated
  /\ calls = <<>>
  /\ blockedOn = 0

\* the buyer calls the seller by a name its interface model holds
CallDeclared ==
  \E methodName \in DOMAIN interfaceDef["buyer"].methods, args \in ArgLists,
     now \in Timestamps :
    /\ Step("callMethod", "buyer",
            [target |-> "seller", methodName |-> methodName, args |-> args],
            callMethod("buyer", "seller", methodName, args, now))
    /\ UNCHANGED registered

NextModel == Generate \/ RegisterHandlers \/ ClientCall \/ CallDeclared

SpecModel == InitModel /\ [][NextModel]_vars

Declarations == SelectOps(idl.members)
IsLast(i) == \A j \in (i + 1)..Len(Declarations) :
               Declarations[j].name # Declarations[i].name
Redeclared(i) == \E j \in 1..(i - 1) : Declarations[j].name = Declarations[i].name

\* C19 as stated: an operation that carries no Intent attribute is recorded
\* with the empty string as its intent, never null, by the model builder of
\* either implementation and by the generator.
C19_IntentDefaultsToEmpty ==
  \A i \in 1..Len(Declarations) :
    (FindAttr(Declarations[i].extAttrs, "Intent") = <<>> /\ IsLast(i))
      => /\ \A a \in Agents :
              /\ Declarations[i].name \in DOMAIN interfaceDef[a].methods
              /\ interfaceDef[a].methods[Declarations[i].name].intent = ""
         /\ methodMeta(idl)[i].intent = ""

nLong == <<"l", "o", "n", "g">>
nUnsignedLong == <<"u", "n", "s", "i", "g", "n", "e", "d", " ", "l", "o", "n", "g">>
nShort == <<"s", "h", "o", "r", "t">>
nByte == <<"b", "y", "t", "e">>
nOctet == <<"o", "c", "t", "e", "t">>
nDouble == <<"d", "o", "u", "b", "l", "e">>
nFloat == <<"f", "l", "o", "a", "t">>
nBoolean == <<"b", "o", "o", "l", "e", "a", "n">>
nDOMString == <<"D", "O", "M", "S", "t", "r", "i", "n", "g">>
nUSVString == <<"U", "S", "V", "S", "t", "r", "i", "n", "g">>
nAny == <<"a", "n", "y">>
nUndefined == <<"u", "n", "d", "e", "f", "i", "n", "e", "d">>
nNumber == <<"n", "u", "m", "b", "e", "r">>
nString == <<"s", "t", "r", "i", "n", "g">>
nContractData == <<"C", "o", "n", "t", "r", "a", "c", "t", "D", "a", "t", "a">>
nOutcome == <<"O", "u", "t", "c", "o", "m", "e">>
nLongTerm == <<"L", "o", "n", "g", "T", "e", "r", "m">>
nShortcut == <<"S", "h", "o", "r", "t", "c", "u", "t">>
nAgentTask == <<"A", "g", "e", "n", "t", "T", "a", "s", "k">>
nPromiseBox == <<"P", "r", "o", "m", "i", "s", "e", "B", "o", "x">>
nPromise == <<"P", "r", "o", "m", "i", "s", "e">>
nArray == <<"A", "r", "r", "a", "y">>
nSequence == <<"s", "e", "q", "u", "e", "n", "c", "e">>
nRecord == <<"r", "e", "c", "o", "r", "d">>
nDomstringLower == <<"d", "o", "m", "s", "t", "r", "i", "n", "g">>
nUsvstringLower == <<"u", "s", "v", "s", "t", "r", "i", "n", "g">>

Lower(c) ==
  CASE c = "A" -> "a" [] c = "B" -> "b" [] c = "C" -> "c" [] c = "D" -> "d"
    [] c = "E" -> "e" [] c = "F" -> "f" [] c = "G" -> "g" [] c = "H" -> "h"
    [] c = "I" -> "i" [] c = "J" -> "j" [] c = "K" -> "k" [] c = "L" -> "l"
    [] c = "M" -> "m" [] c = "N" -> "n" [] c = "O" -> "o" [] c = "P" -> "p"
    [] c = "Q" -> "q" [] c = "R" -> "r" [] c = "S" -> "s" [] c = "T" -> "t"
    [] c = "U" -> "u" [] c = "V" -> "v" [] c = "W" -> "w" [] c = "X" -> "x"
    [] c = "Y" -> "y" [] c = "Z" -> "z" [] OTHER -> c
toLowerCase(name) == [i \in 1..Len(name) |-> Lower(name[i])]
includes(name, part) ==
  \E i \in 0..(Len(name) - Len(part)) : SubSeq(name, i + 1, i + Len(part)) = part
startsWith(name, part) ==
  Len(name) >= Len(part) /\ SubSeq(name, 1, Len(part)) = part

RECURSIVE JoinChars(_, _)
JoinChars(parts, sep) ==
  IF parts = <<>> THEN <<>>
  ELSE IF Len(parts) = 1 THEN Head(parts)
  ELSE Head(parts) \o sep \o JoinChars(Tail(parts), sep)

mapPrimitive(typeName) ==
  LET lower == toLowerCase(typeName) IN
  IF lower = nBoolean THEN nBoolean
  ELSE IF \/ lower = nByte \/ lower = nOctet
          \/ includes(lower, nShort) \/ includes(lower, nLong) THEN nNumber
  ELSE IF lower = nDouble \/ lower = nFloat THEN nNumber
  ELSE IF lower \in {nDomstringLower, nUsvstringLower, nString} THEN nString
  ELSE IF lower = nAny THEN nAny
  ELSE typeName

RECURSIVE mapIdlTypeToTs(_)
mapIdlTypeToTs(t) ==
  CASE t.kind = "none" -> nAny
    [] t.kind = "name" -> mapPrimitive(t.name)
    [] t.kind = "union" ->
         JoinChars([i \in 1..Len(t.inner) |-> mapIdlTypeToTs(t.inner[i])],
                   <<" ", "|", " ">>)
    [] t.kind = "generic" ->
         LET inner == JoinChars([i \in 1..Len(t.inner) |-> mapIdlTypeToTs(t.inner[i])],
                                <<" ", "|", " ">>)
         IN IF t.name = nPromise THEN nPromise \o <<"<">> \o inner \o <<">">>
            ELSE IF t.name = nSequence THEN nArray \o <<"<">> \o inner \o <<">">>
            ELSE t.name \o <<"<">> \o inner \o <<">">>
    [] t.kind = "wrap" -> mapIdlTypeToTs(t.inner[1])

RECURSIVE collectCustomTypes(_, _)
collectCustomTypes(types, t) ==
  CASE t.kind = "none" -> types
    [] t.kind = "name" ->
         LET mapped == mapPrimitive(t.name) IN
         IF /\ mapped = t.name
            /\ mapped # nAny
            /\ ~startsWith(mapped, nPromise)
            /\ ~startsWith(mapped, nArray)
         THEN types \cup {mapped}
         ELSE types
    [] OTHER ->
         types \cup UNION {collectCustomTypes({}, t.inner[i]) : i \in 1..Len(t.inner)}

\* generate(): the names collected over the parameters and the return type
\* of every operation, and the names a placeholder is declared for.
customTypes(iface) ==
  LET methods == SelectOps(iface.members) IN
  UNION {UNION {collectCustomTypes({}, methods[i].arguments[j].idlType) :
                  j \in 1..Len(methods[i].arguments)}
           \cup collectCustomTypes({}, methods[i].idlType) :
         i \in 1..Len(methods)}
customTypeDecls(iface) ==
  {typeName \in customTypes(iface) : typeName \notin {iface.name, nPromise, nArray}}


(***************************************************************************)
(* The ontology projection of the generator: the JSON-LD graph and the     *)
(* Turtle lines.  expandCurie splits an identifier at its colons; the      *)
(* identifiers that occur are split here by a table.                       *)
(***************************************************************************)
DEFAULT_PREFIXES ==
  ("agent" :> "https://s-agent-comm.github.io/agent-ontology/ontologies/agent.ttl#")
  @@ ("intent" :> "https://s-agent-comm.github.io/agent-ontology/ontologies/intent.ttl#")
  @@ ("ledger" :> "https://s-agent-comm.github.io/agent-ontology/ontologies/ledger.ttl#")
  @@ ("capability" :> "https://s-agent-comm.github.io/agent-ontology/ontologies/capability.ttl#")

\* value.split(":")
SplitAtColons(value) ==
  CASE value = "agent:ProposeContract" -> <<"agent", "ProposeContract">>
    [] value = "agent:ExecutePayment" -> <<"agent", "ExecutePayment">>
    [] value = "agent:Renegotiate" -> <<"agent", "Renegotiate">>
    [] value = "ledger:tx" -> <<"ledger", "tx">>
    [] value = "vendor:Audit" -> <<"vendor", "Audit">>
    [] value = "urn:agent:Status" -> <<"urn", "agent", "Status">>
    [] OTHER -> <<value>>

expandCurie(value) ==
  LET parts == SplitAtColons(value) IN
  IF Len(parts) # 2 THEN value
  ELSE IF parts[1] \notin DOMAIN DEFAULT_PREFIXES THEN value
  ELSE DEFAULT_PREFIXES[parts[1]] \o parts[2]

\* jsonld["@graph"]: the class node, then one node per operation
jsonldGraph(iface, meta) ==
  <<[id |-> "agent:" \o iface.name, type |-> "owl:Class", label |-> iface.name,
     Intent |-> Undefined, Proof |-> Undefined, interface |-> Undefined]>>
  \o [i \in 1..Len(meta) |->
        [id |-> OrElse(meta[i].intent, iface.name \o "." \o meta[i].name),
         type |-> "agent:Intent",
         label |-> meta[i].name,
         Intent |-> OrElse(meta[i].intent, Undefined),
         Proof |-> OrElse(meta[i].proof, Undefined),
         interface |-> "agent:" \o iface.name]]

Triple(kind, subject, label) == [kind |-> kind, subject |-> subject, label |-> label]

\* ttlLines after the prefix header: the class line, then per operation an
\* intent line and a proof line, each only if the operation has the value
ttlLines(iface, meta) ==
  <<Triple("class", "agent:" \o iface.name, iface.name)>>
  \o Flatten([i \in 1..Len(meta) |->
       (IF Falsy(meta[i].intent) THEN <<>>
        ELSE <<Triple("intent", expandCurie(meta[i].intent), meta[i].name)>>)
       \o (IF Falsy(meta[i].proof) THEN <<>>
           ELSE <<Triple("proof", expandCurie(meta[i].proof),
                         meta[i].name \o "-proof")>>)])

(***************************************************************************)
(* Runs of the generator's parts: the type resolver on one descriptor, the *)
(* custom-type collection on one definition, the ontology projection on    *)
(* one definition.                                                         *)
(***************************************************************************)
\* Type descriptors whose names are character sequences.
DName(n) == [kind |-> "name", name |-> n, inner |-> <<>>]
DGeneric(g, ds) == [kind |-> "generic", name |-> g, inner |-> ds]
DUnion(ds) == [kind |-> "union", name |-> <<>>, inner |-> ds]
DWrap(d) == [kind |-> "wrap", name |-> <<>>, inner |-> <<d>>]
DNone == [kind |-> "none", name |-> <<>>, inner |-> <<>>]

LeafNames ==
  {nLong, nUnsignedLong, nShort, nByte, nOctet, nDouble, nFloat, nBoolean,
   nDOMString, nUSVString, nAny, nUndefined, nContractData, nOutcome,
   nLongTerm, nShortcut, nAgentTask, nPromiseBox}
Leaf(n) == DWrap(DName(n))
Descriptors ==
  {DNone}
    \cup {DName(n) : n \in LeafNames}
    \cup {Leaf(n) : n \in LeafNames}
    \cup {DGeneric(g, <<Leaf(n)>>) : g \in {nPromise, nSequence, nRecord},
                                    n \in LeafNames}
    \cup {DUnion(<<Leaf(a), Leaf(b)>>) :
            a \in {nLong, nContractData, nLongTerm},
            b \in {nDOMString, nOutcome, nBoolean}}

TypedOp(n, param, ret) == Op(n, <<>>, <<Arg("value", param)>>, ret)
TypedMembers ==
  { TypedOp("proposeContract", Leaf(nContractData),
            DGeneric(nPromise, <<Leaf(nOutcome)>>)),
    TypedOp("isReady", Leaf(nLong), Leaf(nBoolean)),
    TypedOp("plan", Leaf(nLongTerm), Leaf(nAgentTask)),
    TypedOp("list", DGeneric(nSequence, <<Leaf(nShortcut)>>), Leaf(nUndefined)),
    TypedOp("defer", Leaf(nPromiseBox),
            DGeneric(nPromise, <<DUnion(<<Leaf(nContractData), Leaf(nDOMString)>>)>>)),
    TypedOp("probe", DNone, Leaf(nAny)) }
TypedIfaces ==
  { [type |-> "interface", name |-> nAgentTask, extAttrs |-> <<>>, members |-> ms] :
      ms \in UNION {[1..n -> TypedMembers] : n \in 0..MaxOps} }

oVendorAudit ==
  Op("audit", <<Attr("Intent", "object", Str("vendor:Audit"))>>, <<>>,
     TWrap(TName("undefined")))
oStatus ==
  Op("status", <<Attr("Intent", "object", Str("urn:agent:Status")),
                 Attr("Proof", "object", Str("ledger:tx"))>>, <<>>,
     TWrap(TName("DOMString")))
oSettle ==
  Op("settle", <<Attr("Intent", "object", Str("agent:ExecutePayment"))>>,
     <<Arg("receipt", TWrap(TName("Receipt")))>>, TWrap(TName("undefined")))
OntologyMembers ==
  {mProposeContract, mExecutePayment, mPing, vEmptyIntent, oVendorAudit, oStatus,
   oSettle}
OntologyIfaces ==
  {Iface(ms) : ms \in UNION {[1..n -> OntologyMembers] : n \in 0..MaxOps}}

InitTypes ==
  /\ impl = "ts"
  /\ idl = RuntimeIface
  /\ interfaceDef = [a \in Agents |-> loadAgentInterface(impl, idl)]
  /\ intentHandlers = [a \in Agents |-> EmptyTable]
  /\ registered = [a \in Agents |-> EmptyTable]
  /\ generated = NotGenerated
  /\ calls = <<>>
  /\ blockedOn = 0
  /\ \/ \E d \in Descriptors : last = Vector("descriptor", [idlType |-> d])
     \/ \E iface \in TypedIfaces : last = Vector("typed-definition", [iface |-> iface])
     \/ \E iface \in OntologyIfaces : last = Vector("definition", [iface |-> iface])

Emitted(op, value) ==
  /\ last' = Ran(op, "generator", last.input, NoTrace @@ [outcome |-> Returned(value)])
  /\ UNCHANGED <<impl, interfaceDef, intentHandlers, registered, genVars, asyncVars>>

MapIdlTypeToTs ==
  /\ last.op = "descriptor"
  /\ Emitted("mapIdlTypeToTs", mapIdlTypeToTs(last.input.idlType))

CollectCustomTypes ==
  /\ last.op = "typed-definition"
  /\ Emitted("collectCustomTypes",
             [collected |-> customTypes(last.input.iface),
              declared |-> customTypeDecls(last.input.iface)])

ProjectOntology ==
  /\ last.op = "definition"
  /\ Emitted("ontology",
             [graph |-> jsonldGraph(last.input.iface, methodMeta(last.input.iface)),
              ttl |-> ttlLines(last.input.iface, methodMeta(last.input.iface))])

NextTypes == MapIdlTypeToTs \/ CollectCustomTypes \/ ProjectOntology

SpecTypes == InitTypes /\ [][NextTypes]_vars


(***************************************************************************)
(* Claims about the type resolver, the custom-type declarations and the    *)
(* ontology projection (SpecTypes).                                        *)
(***************************************************************************)
NumberNames == {nByte, nOctet, nShort, nLong, nUnsignedLong, nDouble, nFloat}
StringNames == {nDOMString, nUSVString}
RecognisedPrimitives == NumberNames \cup StringNames \cup {nBoolean, nAny}

\* the table as stated: numeric names, boolean, the string family, and every
\* other name unchanged
PrimitiveTable(n) ==
  IF n \in NumberNames THEN nNumber
  ELSE IF n \in StringNames THEN nString
  ELSE n

IsBareName(t) ==
  \/ t.kind = "name"
  \/ t.kind = "wrap" /\ t.inner[1].kind = "name"
BareName(t) == IF t.kind = "name" THEN t.name ELSE t.inner[1].name

\* C21: resolving a bare type name gives 'number' for the numeric names,
\* 'boolean' and 'string' for the boolean and string families, and every other
\* name unchanged, custom names containing 'short' or 'long' included.
C21_PrimitiveTable ==
  (last.op = "mapIdlTypeToTs" /\ IsBareName(last.input.idlType))
    => last.outcome.value = PrimitiveTable(BareName(last.input.idlType))

\* the names at the leaves of a descriptor
RECURSIVE Leaves(_)
Leaves(t) ==
  IF t.kind = "name" THEN {t.name}
  ELSE UNION {Leaves(t.inner[i]) : i \in 1..Len(t.inner)}

DescriptorsOf(iface) ==
  LET ops == SelectOps(iface.members) IN
  UNION {{ops[i].idlType} \cup {ops[i].arguments[j].idlType :
                                  j \in 1..Len(ops[i].arguments)} :
           i \in 1..Len(ops)}

\* C22: the placeholder declarations collected over all parameter and return
\* descriptors never contain the interface's own name, 'Promise', 'Array' or a
\* recognised primitive name; each is a custom name at a leaf of a descriptor.
C22_CustomTypesOnly ==
  last.op = "collectCustomTypes"
    => LET declared == last.outcome.value.declared
           iface == last.input.iface
       IN /\ declared \cap {iface.name, nPromise, nArray} = {}
          /\ declared \cap RecognisedPrimitives = {}
          /\ declared \subseteq UNION {Leaves(d) : d \in DescriptorsOf(iface)}

IntentGiven(op) == ~Falsy(getExtAttrValue(op.extAttrs, "Intent"))
IntentId(iface, op) ==
  IF IntentGiven(op) THEN getExtAttrValue(op.extAttrs, "Intent")
  ELSE iface.name \o "." \o op.name

\* C23: per operation the graph has one Intent node whose @id is the
\* operation's intent, or 'Interface.Operation' when none is given, and the
\* triple text has an intent triple for the same operation.
C23_AlignedSerializations ==
  last.op = "ontology"
    => LET iface == last.input.iface
           ops == SelectOps(iface.members)
           graph == last.outcome.value.graph
           ttl == last.outcome.value.ttl
           IntentNodes == {k \in 1..Len(graph) : graph[k].type = "agent:Intent"}
       IN /\ Cardinality(IntentNodes) = Len(ops)
          /\ \A i \in 1..Len(ops) :
               /\ i + 1 \in IntentNodes
               /\ graph[i + 1].id = IntentId(iface, ops[i])
               /\ graph[i + 1].label = ops[i].name
               /\ \E k \in 1..Len(ttl) :
                    /\ ttl[k].kind = "intent"
                    /\ ttl[k].label = ops[i].name


(***************************************************************************)
(* Interoperation through the generated module: the definition may hold    *)
(* operations of different names that carry the same intent, or none.      *)
(***************************************************************************)
oHeartbeat == Op("heartbeat", <<>>, <<>>, TWrap(TName("undefined")))

InteropMembers == {mProposeContract, mExecutePayment, mPing, oSettle, oHeartbeat}
InteropIfaces ==
  {Iface(ms) : ms \in UNION {[1..n -> InteropMembers] : n \in 0..MaxOps}}

InitInterop ==
  /\ impl = "js"
  /\ idl \in InteropIfaces
  /\ interfaceDef = [a \in Agents |-> loadAgentInterface(impl, idl)]
  /\ intentHandlers = [a \in Agents |-> EmptyTable]
  /\ registered = [a \in Agents |-> EmptyTable]
  /\ last = Ran("new", "buyer", <<>>, NoTrace @@ [outcome |-> Returned(Undefined)])
  /\ generated = NotGenerated
  /\ calls = <<>>
  /\ blockedOn = 0

NextInterop == Generate \/ RegisterHandlers \/ ClientCall

SpecInterop == InitInterop /\ [][NextInterop]_vars

\* the handlers have been registered on the seller's runtime
HandlersRegistered ==
  /\ generated.done
  /\ \E f \in Flavours :
       intentHandlers = registerFrom(f, generated[f],
                                     [a \in Agents |-> EmptyTable], "seller", 1)

\* the client was called with one argument per declared parameter
CalledWithDeclaredArgs ==
  /\ last.op = "client"
  /\ Len(last.input.args) =
       Len(ObjectLiteral(generated[last.input.flavour].client)[last.input.opName].payloadKeys)

\* C24: once the handlers are registered, client.op(a_1, ..., a_n) invokes
\* handlers.op and no other handler, with a_1, ..., a_n in declared order
\* followed by the message, and settles with what handlers.op returned; also
\* when two operations carry the same or an empty intent.
C24_ClientReachesOwnHandler ==
  (HandlersRegistered /\ CalledWithDeclaredArgs)
    => /\ Len(last.invoked) = 1
       /\ last.outcome.kind = "value"
       /\ last.outcome.value.by = "handlers." \o last.input.opName
       /\ last.outcome.value.args = last.input.args
       /\ last.outcome.value.saw = last.invoked[1].message
       /\ last.outcome = HandlerCall(last.invoked[1].handler, last.invoked[1].message)


(***************************************************************************)
(* Dispatch of a received message (Spec).                                  *)
(***************************************************************************)
\* the messages that differ from m in addressee, sender, proof or timestamp
\* only
SameIntentAs(m) ==
  { [m EXCEPT !.to = to, !.from = from, !.proof = proof, !.timestamp = ts] :
      to \in {AgentId(a) : a \in Agents} \cup {"agent:Other"},
      from \in {"agent:Buyer", "agent:Other"},
      proof \in {Null, "ledger:tx", "forged"},
      ts \in {"t1", "t2"} }

HandlersInvoked(result) ==
  [i \in 1..Len(result.invoked) |-> result.invoked[i].handler]

\* C25: receive picks the handler from message.intent alone: a message whose
\* intent has a handler is handled by that handler whether or not message.to
\* is the receiver's id, and every message that differs only in to, from,
\* proof or timestamp is dispatched to the same handler.
C25_DispatchByIntentAlone ==
  last.op = "receive"
    => LET message == last.input.message
           table == intentHandlers[last.self]
       IN /\ message.intent \in DOMAIN table
               => HandlersInvoked(last) = <<table[message.intent]>>
          /\ message.intent \notin DOMAIN table => last.invoked = <<>>
          /\ \A other \in SameIntentAs(message) :
               HandlersInvoked(receive(last.self, other)) = HandlersInvoked(last)

C25_Witness ==
  /\ last.op = "receive"
  /\ last.input.message.to # AgentId(last.self)
  /\ Len(last.invoked) = 1
  /\ last.outcome.kind = "value"

====
